---- MODULE Spec2Model ----
(***************************************************************************)
(* Retirement simulator: the projection loop of RetirementSimulator        *)
(* (calculateSimulation), the statistics derived from the displayed        *)
(* series, the effect that writes the solved withdrawal back, the          *)
(* retirement age/year field of ParametersSection, the closed-form         *)
(* helpers of utils/financialCalculations, and the worker pool of          *)
(* hooks/useWorker with the scheduleDetails worker and its tables.         *)
(*                                                                         *)
(* JavaScript numbers are modelled in fixed point.  A money amount is an   *)
(* integer count of 1/MoneyScale currency units, a rate is an integer      *)
(* count of 1/RateScale (a rate of 7% is 7 * RateScale / 100).  The three  *)
(* non-finite doubles NaN, +Infinity and -Infinity are kept as values of   *)
(* their own, with the IEEE-754 rules of the operations the code uses.     *)
(***************************************************************************)
EXTENDS Integers, Sequences, FiniteSets, TLC

\* ---------------------------------------------------------------------
\* Resolution and size of the model
\* ---------------------------------------------------------------------
MoneyScale == 10
RateScale == 20000
\* number of simulated years of the short plans (current age = 95 - SimYears)
SimYears == 5
\* number of different calendar years the clock shows over the runs
ClockYears == 2
\* components mounted on the same pooled worker
NumComponents == 2
\* messages posted to the worker in one run
MaxRequests == 3
\* termination timers pending at the same time
MaxTimers == 2
\* parameter changes made by the user in one run
MaxChanges == 2
\* write-backs of the solved withdrawal after one parameter change
MaxUpdates == 3

\* ---------------------------------------------------------------------
\* JavaScript numbers
\* ---------------------------------------------------------------------
NaN == -2000000001
Inf == 2000000002
NegInf == -2000000002

IsNaN(x) == x = NaN
IsFinite(x) == x # NaN /\ x # Inf /\ x # NegInf

Abs(x) == IF x < 0 THEN -x ELSE x
Sign(x) == IF x < 0 THEN -1 ELSE IF x > 0 THEN 1 ELSE 0

\* floor(a * b / c) for a, b >= 0 and 0 < c, without leaving 32 bits
MulDiv(a, b, c) ==
  LET qa == a \div c
      ra == a % c
      qb == b \div c
      rb == b % c
  IN  qa * qb * c + qa * rb + ra * qb + (ra * rb) \div c

\* a * b / c truncated toward zero, for finite a, b and c # 0
MulDivS(a, b, c) ==
  Sign(a) * Sign(b) * Sign(c) * MulDiv(Abs(a), Abs(b), Abs(c))

Neg(a) ==
  IF a = NaN THEN NaN
  ELSE IF a = Inf THEN NegInf
  ELSE IF a = NegInf THEN Inf
  ELSE -a

\* a + b
Add(a, b) ==
  IF a = NaN \/ b = NaN THEN NaN
  ELSE IF a = Inf THEN (IF b = NegInf THEN NaN ELSE Inf)
  ELSE IF a = NegInf THEN (IF b = Inf THEN NaN ELSE NegInf)
  ELSE IF b = Inf \/ b = NegInf THEN b
  ELSE a + b

\* a - b
Sub(a, b) == Add(a, Neg(b))

\* x * k for an integer k (x * 12, x * 6)
MulInt(x, k) ==
  IF x = NaN THEN NaN
  ELSE IF x = Inf \/ x = NegInf
       THEN (IF k = 0 THEN NaN ELSE IF k > 0 THEN x ELSE Neg(x))
  ELSE x * k

\* x * r for a finite rate r (in 1/RateScale)
MulRate(x, r) ==
  IF x = NaN THEN NaN
  ELSE IF x = Inf \/ x = NegInf
       THEN (IF r = 0 THEN NaN ELSE IF r > 0 THEN x ELSE Neg(x))
  ELSE MulDivS(x, r, RateScale)

\* x / n for a finite integer n (n = 0 gives NaN or an infinity)
DivInt(x, n) ==
  IF x = NaN THEN NaN
  ELSE IF x = Inf \/ x = NegInf
       THEN (IF n >= 0 THEN x ELSE Neg(x))
  ELSE IF n = 0
       THEN (IF x = 0 THEN NaN ELSE IF x > 0 THEN Inf ELSE NegInf)
  ELSE Sign(x) * Sign(n) * (Abs(x) \div Abs(n))

\* x / d for a finite d in 1/RateScale (d = 0 gives NaN or an infinity)
DivRate(x, d) ==
  IF x = NaN THEN NaN
  ELSE IF x = Inf \/ x = NegInf
       THEN (IF d >= 0 THEN x ELSE Neg(x))
  ELSE IF d = 0
       THEN (IF x = 0 THEN NaN ELSE IF x > 0 THEN Inf ELSE NegInf)
  ELSE MulDivS(x, RateScale, d)

\* the comparisons of the code; every comparison with NaN is false
Lt(a, b) ==
  /\ a # NaN /\ b # NaN /\ a # b
  /\ \/ a = NegInf
     \/ b = Inf
     \/ IsFinite(a) /\ IsFinite(b) /\ a < b
Leq(a, b) == a # NaN /\ b # NaN /\ (a = b \/ Lt(a, b))

\* Math.max(a, b)
MathMax(a, b) ==
  IF a = NaN \/ b = NaN THEN NaN
  ELSE IF Lt(a, b) THEN b ELSE a

\* Math.round(x): the nearest whole currency unit, halves rounded up
MathRound(x) ==
  IF ~IsFinite(x) THEN x
  ELSE ((2 * x + MoneyScale) \div (2 * MoneyScale)) * MoneyScale

\* Math.pow(base, n) for n >= 0, base and result in 1/RateScale
RECURSIVE PowFix(_, _)
PowFix(base, n) ==
  IF n = 0 THEN RateScale
  ELSE IF n % 2 = 1
       THEN MulDiv(base, PowFix(base, n - 1), RateScale)
  ELSE LET h == PowFix(base, n \div 2) IN MulDiv(h, h, RateScale)

\* Math.pow(base, n) for any integer n
Pow(base, n) ==
  IF n >= 0 THEN PowFix(base, n)
  ELSE (RateScale * RateScale) \div PowFix(base, -n)

\* Math.pow(1 + annual, 1/12) - 1 for annual >= 0: the monthly rate m whose
\* twelve-fold compounding does not exceed the annual rate (0 exactly when
\* annual is 0, as in floating point)
MonthlyEquivalent(annual) ==
  CHOOSE m \in 0..annual :
    /\ PowFix(RateScale + m, 12) <= RateScale + annual
    /\ PowFix(RateScale + m + 1, 12) > RateScale + annual

\* percent / 100 as a rate
Pct(p) == (p * RateScale) \div 100

\* ---------------------------------------------------------------------
\* utils/financialCalculations
\* ---------------------------------------------------------------------

\* the annual-compounding loop of calculateFutureValue
RECURSIVE AnnualFutureValue(_, _, _, _)
AnnualFutureValue(totalValue, annualContribution, rate, years) ==
  IF years <= 0 THEN totalValue
  ELSE LET t == Add(totalValue, annualContribution)
       IN  AnnualFutureValue(Add(t, MulRate(t, rate)), annualContribution,
                             rate, years - 1)

\* calculateFutureValue(principal, annualRate, years, monthlyContribution,
\* compoundFrequency); annualRate in percent
calculateFutureValue(principal, annualRate, years, monthlyContribution, compoundFrequency) ==
  LET annualRateDecimal == Pct(annualRate)
  IN  IF compoundFrequency = "monthly"
      THEN LET monthlyRate == MonthlyEquivalent(annualRateDecimal)
               totalMonths == years * 12
               growth == Pow(RateScale + monthlyRate, totalMonths)
               principalFV == MulRate(principal, growth)
               \* (pow - 1) / monthlyRate is 0/0 = NaN at a zero rate
               contributionFV ==
                 IF monthlyRate = 0 THEN NaN
                 ELSE MulDivS(monthlyContribution, growth - RateScale,
                              monthlyRate)
           IN  Add(principalFV, contributionFV)
      ELSE AnnualFutureValue(principal, MulInt(monthlyContribution, 12),
                             annualRateDecimal, years)

\* (1 + nominalRate) / (1 + inflationRate) - 1, the Fisher equation
RealAnnualRate(annualRate, inflation) ==
  MulDiv(RateScale + Pct(annualRate), RateScale, RateScale + Pct(inflation))
    - RateScale

\* principal * rate / (1 - Math.pow(1 + rate, -periods)) for rate > 0
AnnuityPayment(principal, rate, periods) ==
  LET denominator == RateScale - Pow(RateScale + rate, -periods)
  IN  DivRate(MulRate(principal, rate), denominator)

\* calculateWithdrawalAmount(principal, annualRate, years, inflation,
\* compoundFrequency)
calculateWithdrawalAmount(principal, annualRate, years, inflation, compoundFrequency) ==
  LET realAnnualRate == RealAnnualRate(annualRate, inflation)
      totalMonths == years * 12
  IN  IF compoundFrequency = "monthly"
      THEN LET realMonthlyRate ==
                 IF realAnnualRate <= 0 THEN realAnnualRate
                 ELSE MonthlyEquivalent(realAnnualRate)
           IN  IF realMonthlyRate <= 0
               THEN DivInt(principal, totalMonths)
               ELSE AnnuityPayment(principal, realMonthlyRate, totalMonths)
      ELSE IF realAnnualRate <= 0
           THEN DivInt(principal, totalMonths)
           ELSE DivInt(AnnuityPayment(principal, realAnnualRate, years), 12)

\* calculateRateBasedWithdrawal(capital, withdrawalRate)
calculateRateBasedWithdrawal(capital, withdrawalRate) ==
  DivInt(MulRate(capital, Pct(withdrawalRate)), 12)

\* payment * (1 - Math.pow(1 + rate, -periods)) / rate for rate > 0
AnnuityPresentValue(payment, rate, periods) ==
  DivRate(MulRate(payment, RateScale - Pow(RateScale + rate, -periods)), rate)

\* calculateCapitalNeeded(monthlyWithdrawal, annualRate, years, inflation,
\* compoundFrequency)
calculateCapitalNeeded(monthlyWithdrawal, annualRate, years, inflation, compoundFrequency) ==
  LET realAnnualRate == RealAnnualRate(annualRate, inflation)
      totalMonths == years * 12
  IN  IF compoundFrequency = "monthly"
      THEN LET realMonthlyRate ==
                 IF realAnnualRate <= 0 THEN realAnnualRate
                 ELSE MonthlyEquivalent(realAnnualRate)
           IN  IF realMonthlyRate <= 0
               THEN MulInt(monthlyWithdrawal, totalMonths)
               ELSE AnnuityPresentValue(monthlyWithdrawal, realMonthlyRate,
                                        totalMonths)
      ELSE LET annualWithdrawalAmount == MulInt(monthlyWithdrawal, 12)
           IN  IF realAnnualRate <= 0
               THEN MulInt(annualWithdrawalAmount, years)
               ELSE AnnuityPresentValue(annualWithdrawalAmount,
                                        realAnnualRate, years)

\* ---------------------------------------------------------------------
\* Parameters (SimulatorParams) and the plans the model runs
\* ---------------------------------------------------------------------
DefaultMaxAge == 95
BaseYear == 2026

\* Number(params.retirementInput) for a string of decimal digits
RECURSIVE Number(_)
Number(str) ==
  IF Len(str) = 0 THEN 0
  ELSE 10 * Number(SubSeq(str, 1, Len(str) - 1)) + str[Len(str)]

\* String(n): the decimal digits of a number, as the input field holds them
RECURSIVE Digits(_)
Digits(n) ==
  IF n < 10 THEN <<n>> ELSE Append(Digits(n \div 10), n % 10)

Money(units) == units * MoneyScale

ShortAge == DefaultMaxAge - SimYears

\* plans over the last SimYears years before the default horizon: already
\* retired (a past calendar year), retiring in the first simulated year,
\* retiring later (as an age and as a calendar year)
ShortPlans ==
  [ initialCapital : {0, Money(1200) + 3, Money(10000)},
    monthlyInvestment : {0, Money(500)},
    annualReturnRate : {0, 7},
    inflation : {0, 2},
    monthlyRetirementWithdrawal : {Money(100), Money(2000)},
    currentAge : {ShortAge},
    retirementInput : {Digits(ShortAge), Digits(ShortAge + 2),
                       Digits(BaseYear - 1), Digits(BaseYear + 3)},
    retirementInputType : {"string"},
    withdrawalMode : {"amount", "age", "rate"},
    maxAge : {DefaultMaxAge},
    withdrawalRate : {4},
    compoundFrequency : {"monthly", "annual"} ]

\* Scenario A: the defaults ParametersSection sets on first load
ScenarioA ==
  [ initialCapital : {Money(150000)},
    monthlyInvestment : {Money(500)},
    annualReturnRate : {7},
    inflation : {2},
    monthlyRetirementWithdrawal : {Money(2000)},
    currentAge : {46},
    retirementInput : {Digits(60)},
    retirementInputType : {"string"},
    withdrawalMode : {"amount", "age", "rate"},
    maxAge : {DefaultMaxAge},
    withdrawalRate : {4},
    compoundFrequency : {"monthly", "annual"} ]

\* Scenario B: nothing saved, nothing contributed, retirement next year
ScenarioB ==
  [ initialCapital : {0},
    monthlyInvestment : {0},
    annualReturnRate : {0},
    inflation : {0},
    monthlyRetirementWithdrawal : {Money(1000)},
    currentAge : {40},
    retirementInput : {Digits(41)},
    retirementInputType : {"string"},
    withdrawalMode : {"amount"},
    maxAge : {DefaultMaxAge},
    withdrawalRate : {4},
    compoundFrequency : {"monthly", "annual"} ]

\* plans that retire at the horizon age: a retirement of zero years
HorizonPlans ==
  [ initialCapital : {Money(10000)},
    monthlyInvestment : {0},
    annualReturnRate : {0, 7},
    inflation : {2},
    monthlyRetirementWithdrawal : {Money(2000)},
    currentAge : {ShortAge},
    retirementInput : {Digits(DefaultMaxAge)},
    retirementInputType : {"string"},
    withdrawalMode : {"amount", "age", "rate"},
    maxAge : {DefaultMaxAge},
    withdrawalRate : {4},
    compoundFrequency : {"monthly", "annual"} ]

\* in the modes that do not use it, the stored withdrawal amount is one value
Plans ==
  { p \in ShortPlans \cup ScenarioA \cup ScenarioB \cup HorizonPlans :
      p.withdrawalMode # "amount"
        => p.monthlyRetirementWithdrawal = Money(2000) }

\* ---------------------------------------------------------------------
\* State
\* ---------------------------------------------------------------------
VARIABLES
  params, currentYear,
  pc, year, month, data,
  monthlyReturn, capitalAtRetirement,
  capital, principalOnly, currentMonthlyInvestment, currentMonthlyWithdrawal,
  totalInvested, totalWithdrawn, isCapitalDepleted,
  capitalAtStart, annualInvestment, annualWithdrawal, annualInterest,
  graphData,
  mounted, workerUsageCount, workerPool, timers,
  inbox, outbox, listeners, posted, view,
  effectPending, updates, changes

\* the state of the worker pool, of its worker and of the tables using it
workerVars ==
  << mounted, workerUsageCount, workerPool, timers, inbox, outbox,
     listeners, posted, view >>

\* the state of the effect that writes the solved withdrawal back
syncVars == << effectPending, updates, changes >>

\* the locals of calculateSimulation
loopVars ==
  << pc, year, month, data, monthlyReturn, capitalAtRetirement, capital,
     principalOnly, currentMonthlyInvestment, currentMonthlyWithdrawal,
     totalInvested, totalWithdrawn, isCapitalDepleted, capitalAtStart,
     annualInvestment, annualWithdrawal, annualInterest >>

\* what the tables and the pool leave alone
simVars == << params, currentYear, loopVars, graphData, syncVars >>

vars ==
  << params, currentYear, pc, year, month, data, monthlyReturn,
     capitalAtRetirement, capital, principalOnly, currentMonthlyInvestment,
     currentMonthlyWithdrawal, totalInvested, totalWithdrawn,
     isCapitalDepleted, capitalAtStart, annualInvestment, annualWithdrawal,
     annualInterest, graphData, workerVars, syncVars >>

Components == 1..NumComponents

\* the state a ScheduleDetails table is created with
InitialView ==
  [ filteredPhase |-> "all",
    sortConfig |-> [key |-> "null", direction |-> "null"],
    processedData |-> << >> ]

\* the pool before any component uses it: no worker, a usage count of zero
PoolEmpty ==
  /\ mounted = {}
  /\ workerUsageCount = 0
  /\ workerPool = "null"
  /\ timers = 0
  /\ inbox = << >>
  /\ outbox = << >>
  /\ listeners = << >>
  /\ posted = 0
  /\ view = [c \in Components |-> InitialView]

\* no parameter changed since the write-back effect last ran
SyncIdle ==
  /\ effectPending = FALSE
  /\ updates = 0
  /\ changes = 0

\* ---------------------------------------------------------------------
\* Timeline helpers of RetirementSimulator
\* ---------------------------------------------------------------------
getBirthYear == currentYear - params.currentAge

\* params.retirementInput.length is a number only for a string: a number
\* has no length, and undefined <= 2 and undefined === 4 are both false
HasLength == params.retirementInputType = "string"

isRetirementInputAnAge ==
  LET input == Number(params.retirementInput)
      len == Len(params.retirementInput)
  IN  \/ input > 0 /\ input < 120 /\ HasLength /\ len <= 2
      \/ ~(/\ HasLength /\ len = 4
            /\ SubSeq(params.retirementInput, 1, 2) = <<2, 0>>)

getRetirementYear ==
  IF isRetirementInputAnAge
  THEN currentYear + (Number(params.retirementInput) - params.currentAge)
  ELSE Number(params.retirementInput)

calculatedRetirementStartYear == getRetirementYear
targetMaxAge ==
  IF params.withdrawalMode = "age" THEN params.maxAge ELSE DefaultMaxAge
retirementStartAge == calculatedRetirementStartYear - getBirthYear
retirementDuration == targetMaxAge - retirementStartAge
retirementStartIndex == calculatedRetirementStartYear - currentYear
simulationDuration == targetMaxAge - params.currentAge

simulatedYear == currentYear + year
age == params.currentAge + year

\* a loop in which every year counts as a retirement year
inRetirementPhaseAlways == TRUE

inRetirementPhase == simulatedYear >= calculatedRetirementStartYear
isTransitionYear == simulatedYear = calculatedRetirementStartYear

\* params.withdrawalMode === "rate" && params.withdrawalRate
RateMode == params.withdrawalMode = "rate" /\ params.withdrawalRate # 0

\* the monthly rate the loop compounds with
MonthlyReturnOf(p) ==
  IF p.compoundFrequency = "monthly"
  THEN MonthlyEquivalent(Pct(p.annualReturnRate))
  ELSE Pct(p.annualReturnRate) \div 12

\* const monthlyInflation (line 105), which the loop never reads
monthlyInflation == MonthlyEquivalent(Pct(params.inflation))

\* 1 + params.inflation / 100 applied to a monthly amount
Inflate(amount) == Add(amount, MulRate(amount, Pct(params.inflation)))

\* the withdrawal the run starts with (lines 118-127)
ResolveWithdrawal(capAtRetirement) ==
  IF params.withdrawalMode = "age"
  THEN calculateWithdrawalAmount(capAtRetirement, params.annualReturnRate,
                                 retirementDuration, params.inflation,
                                 params.compoundFrequency)
  ELSE IF RateMode
  THEN calculateRateBasedWithdrawal(capAtRetirement, params.withdrawalRate)
  ELSE params.monthlyRetirementWithdrawal

Init ==
  /\ params \in Plans
  /\ currentYear = BaseYear
  /\ pc = "idle"
  /\ year = 0
  /\ month = 0
  /\ data = << >>
  /\ monthlyReturn = 0
  /\ capitalAtRetirement = 0
  /\ capital = 0
  /\ principalOnly = 0
  /\ currentMonthlyInvestment = 0
  /\ currentMonthlyWithdrawal = 0
  /\ totalInvested = 0
  /\ totalWithdrawn = 0
  /\ isCapitalDepleted = FALSE
  /\ capitalAtStart = 0
  /\ annualInvestment = 0
  /\ annualWithdrawal = 0
  /\ annualInterest = 0
  /\ graphData = << >>
  /\ PoolEmpty
  /\ SyncIdle

\* calculateSimulation, up to the loop (lines 88-128)
StartSimulation ==
  /\ pc = "idle"
  /\ LET car == calculateFutureValue(params.initialCapital,
                                     params.annualReturnRate,
                                     retirementStartIndex,
                                     params.monthlyInvestment,
                                     params.compoundFrequency)
     IN  /\ capitalAtRetirement' = car
         /\ currentMonthlyWithdrawal' = ResolveWithdrawal(car)
  /\ monthlyReturn' = MonthlyReturnOf(params)
  /\ data' = << >>
  /\ capital' = params.initialCapital
  /\ principalOnly' = params.initialCapital
  /\ currentMonthlyInvestment' = params.monthlyInvestment
  /\ totalInvested' = params.initialCapital
  /\ totalWithdrawn' = 0
  /\ isCapitalDepleted' = FALSE
  /\ year' = 0
  /\ month' = 0
  /\ pc' = "yearStart"
  /\ UNCHANGED << params, currentYear, capitalAtStart, annualInvestment,
                  annualWithdrawal, annualInterest, graphData, workerVars,
                  syncVars >>

\* ---------------------------------------------------------------------
\* The yearly loop of calculateSimulation (lines 130-331)
\* ---------------------------------------------------------------------

\* the data point pushed for a year that starts without capital (137-153)
DepletedPoint ==
  [ year |-> simulatedYear,
    age |-> age,
    capital |-> 0,
    capitalWithoutInterest |-> 0,
    variation |-> 0,
    retirement |-> IF inRetirementPhase THEN "Yes" ELSE "No",
    annualInvestment |-> 0,
    annualWithdrawal |-> 0,
    annualInterest |-> 0,
    netVariationExcludingInterest |-> 0,
    finalMonthlyInvestment |-> MathRound(currentMonthlyInvestment),
    finalMonthlyWithdrawal |-> MathRound(currentMonthlyWithdrawal),
    totalInvested |-> totalInvested,
    totalWithdrawn |-> totalWithdrawn,
    targetAge |-> (age = targetMaxAge) ]

\* one year of growth from the previous data point, six months of
\* contributions (lines 166-179)
RECURSIVE NaturalGrowthFrom(_, _)
NaturalGrowthFrom(naturalGrowth, m) ==
  IF m >= 12 THEN naturalGrowth
  ELSE LET withInvestment ==
             IF m < 6 THEN Add(naturalGrowth, currentMonthlyInvestment)
             ELSE naturalGrowth
       IN  NaturalGrowthFrom(
             Add(withInvestment, MulRate(withInvestment, monthlyReturn)),
             m + 1)

NaturalGrowth(previousYearCapital) == NaturalGrowthFrom(previousYearCapital, 0)

\* the capital the retirement year starts with (lines 162-187)
ReconciledCapital ==
  IF Len(data) > 0
  THEN MathMax(NaturalGrowth(data[Len(data)].capital), capitalAtRetirement)
  ELSE capitalAtRetirement

\* the loop test that stops at the first year starting without capital, as
\* the first version of the simulator did (if (capital <= 0) break)
LoopStopsAtDepletion ==
  year <= simulationDuration /\ ~(Len(data) > 0 /\ Leq(capital, 0))

\* the loop test with the last year left out
LoopStopsOneShort == year < simulationDuration

\* the loop test: year <= simulationDuration (line 130)
LoopContinues == year <= simulationDuration

\* head of the loop body: the loop test, the depleted branch, the
\* reconciliation of the retirement year and the reset of the yearly sums
\* (lines 130-193)
YearStart ==
  /\ pc = "yearStart"
  /\ IF ~LoopContinues
     THEN \* the loop ends: return data
          /\ pc' = "done"
          /\ UNCHANGED << year, month, data, capital, isCapitalDepleted,
                          capitalAtStart, annualInvestment, annualWithdrawal,
                          annualInterest >>
     ELSE IF Leq(capital, 0)
     THEN /\ isCapitalDepleted' = TRUE
          /\ data' = Append(data, DepletedPoint)
          /\ year' = year + 1
          /\ UNCHANGED << pc, month, capital, capitalAtStart,
                          annualInvestment, annualWithdrawal, annualInterest >>
     ELSE LET start == IF isTransitionYear /\ year > 0
                       THEN ReconciledCapital
                       ELSE capital
          IN  /\ capital' = start
              /\ capitalAtStart' = start
              /\ annualInvestment' = 0
              /\ annualWithdrawal' = 0
              /\ annualInterest' = 0
              /\ month' = 0
              /\ pc' = IF params.compoundFrequency = "monthly"
                       THEN "months" ELSE "annual"
              /\ UNCHANGED << year, data, isCapitalDepleted >>
  /\ UNCHANGED << params, currentYear, monthlyReturn, capitalAtRetirement,
                  principalOnly, currentMonthlyInvestment,
                  currentMonthlyWithdrawal, totalInvested, totalWithdrawn,
                  graphData, workerVars, syncVars >>

\* the retirement month one month late
retirementMonthLate == 6 + 1

\* const retirementMonth = 6 (line 215)
retirementMonth == 6

\* the investment branch without the test of the retirement phase
InvestmentMonthIgnoresPhase ==
  \/ isTransitionYear /\ month < retirementMonth
  \/ ~isTransitionYear

\* the month in which an investment is made (lines 217-221 and 233-237)
InvestmentMonth ==
  \/ isTransitionYear /\ month < retirementMonth
  \/ ~isTransitionYear /\ ~inRetirementPhase

\* the recalculation without the test of the withdrawal mode
RecalculatesInEveryMode == month = 0

\* the condition under which the rate-based withdrawal is recalculated in
\* the monthly loop (lines 225 and 241)
RecalculatesThisMonth == RateMode /\ month = 0

\* one iteration of the monthly loop (lines 197-251)
MonthStep ==
  /\ pc = "months"
  /\ month < 12
  /\ IF Leq(capital, 0)
     THEN \* break
          /\ capital' = 0
          /\ principalOnly' = MathMax(0, Sub(totalInvested, totalWithdrawn))
          /\ isCapitalDepleted' = TRUE
          /\ pc' = "yearEnd"
          /\ UNCHANGED << month, annualInterest, annualInvestment,
                          annualWithdrawal, totalInvested, totalWithdrawn,
                          currentMonthlyWithdrawal >>
     ELSE LET interest == MulRate(capital, monthlyReturn)
              withInterest == Add(capital, interest)
              withdrawal ==
                IF RecalculatesThisMonth
                THEN calculateRateBasedWithdrawal(withInterest,
                                                  params.withdrawalRate)
                ELSE currentMonthlyWithdrawal
              afterFlow ==
                IF InvestmentMonth
                THEN Add(withInterest, currentMonthlyInvestment)
                ELSE Sub(withInterest, withdrawal)
          IN  /\ annualInterest' = Add(annualInterest, interest)
              /\ IF InvestmentMonth
                 THEN /\ annualInvestment' =
                           Add(annualInvestment, currentMonthlyInvestment)
                      /\ totalInvested' =
                           Add(totalInvested, currentMonthlyInvestment)
                      /\ UNCHANGED << annualWithdrawal, totalWithdrawn,
                                      currentMonthlyWithdrawal >>
                 ELSE /\ currentMonthlyWithdrawal' = withdrawal
                      /\ annualWithdrawal' = Add(annualWithdrawal, withdrawal)
                      /\ totalWithdrawn' = Add(totalWithdrawn, withdrawal)
                      /\ UNCHANGED << annualInvestment, totalInvested >>
              /\ capital' = IF Lt(afterFlow, 0) THEN 0 ELSE afterFlow
              /\ month' = month + 1
              /\ pc' = IF month + 1 < 12 THEN "months" ELSE "yearEnd"
              /\ UNCHANGED << principalOnly, isCapitalDepleted >>
  /\ UNCHANGED << params, currentYear, year, data, monthlyReturn,
                  capitalAtRetirement, currentMonthlyInvestment,
                  capitalAtStart, graphData, workerVars, syncVars >>

\* the year under annual compounding (lines 253-296)
AnnualStep ==
  /\ pc = "annual"
  /\ IF Leq(capital, 0)
     THEN /\ capital' = 0
          /\ principalOnly' = MathMax(0, Sub(totalInvested, totalWithdrawn))
          /\ isCapitalDepleted' = TRUE
          /\ UNCHANGED << annualInterest, annualInvestment, annualWithdrawal,
                          totalInvested, totalWithdrawn,
                          currentMonthlyWithdrawal >>
     ELSE LET withdrawal ==
                IF ~isTransitionYear /\ RateMode
                THEN calculateRateBasedWithdrawal(capital,
                                                  params.withdrawalRate)
                ELSE currentMonthlyWithdrawal
              yearlyInvestment ==
                IF ~inRetirementPhase
                THEN MulInt(currentMonthlyInvestment, 12)
                ELSE IF isTransitionYear
                THEN MulInt(currentMonthlyInvestment, 6)
                ELSE 0
              yearlyWithdrawal ==
                IF ~inRetirementPhase THEN 0
                ELSE IF isTransitionYear
                THEN MulInt(currentMonthlyWithdrawal, 6)
                ELSE MulInt(withdrawal, 12)
              afterFlow == Sub(Add(capital, yearlyInvestment), yearlyWithdrawal)
              interest == MulRate(MathMax(0, afterFlow),
                                  Pct(params.annualReturnRate))
              withInterest == Add(afterFlow, interest)
          IN  /\ currentMonthlyWithdrawal' =
                   IF inRetirementPhase THEN withdrawal
                   ELSE currentMonthlyWithdrawal
              /\ annualInvestment' = yearlyInvestment
              /\ annualWithdrawal' = yearlyWithdrawal
              /\ totalInvested' = Add(totalInvested, yearlyInvestment)
              /\ totalWithdrawn' = Add(totalWithdrawn, yearlyWithdrawal)
              /\ annualInterest' = interest
              /\ capital' = IF Lt(withInterest, 0) THEN 0 ELSE withInterest
              /\ UNCHANGED << principalOnly, isCapitalDepleted >>
  /\ pc' = "yearEnd"
  /\ UNCHANGED << params, currentYear, year, month, data, monthlyReturn,
                  capitalAtRetirement, currentMonthlyInvestment,
                  capitalAtStart, graphData, workerVars, syncVars >>

\* the data point pushed at the end of a simulated year (lines 314-330),
\* given the amounts after the inflation adjustment
YearPoint(investment, withdrawal, principal) ==
  [ year |-> simulatedYear,
    age |-> age,
    capital |-> MathRound(capital),
    capitalWithoutInterest |-> MathRound(principal),
    variation |-> MathRound(Sub(capital, capitalAtStart)),
    retirement |-> IF inRetirementPhase THEN "Yes" ELSE "No",
    annualInvestment |-> MathRound(annualInvestment),
    annualWithdrawal |-> MathRound(annualWithdrawal),
    annualInterest |-> MathRound(annualInterest),
    netVariationExcludingInterest |->
      MathRound(IF inRetirementPhase THEN Neg(annualWithdrawal)
                ELSE annualInvestment),
    finalMonthlyInvestment |-> MathRound(investment),
    finalMonthlyWithdrawal |-> MathRound(withdrawal),
    totalInvested |-> totalInvested,
    totalWithdrawn |-> totalWithdrawn,
    targetAge |-> (age = targetMaxAge) ]

\* tail of the loop body: the inflation adjustment, the principal track and
\* the data point of the year (lines 298-331)
YearEnd ==
  /\ pc = "yearEnd"
  /\ LET investment ==
           IF ~inRetirementPhase \/ isTransitionYear
           THEN Inflate(currentMonthlyInvestment)
           ELSE currentMonthlyInvestment
         withdrawal ==
           IF inRetirementPhase \/ isTransitionYear
           THEN Inflate(currentMonthlyWithdrawal)
           ELSE currentMonthlyWithdrawal
         principal == MathMax(0, Sub(totalInvested, totalWithdrawn))
     IN  /\ currentMonthlyInvestment' = investment
         /\ currentMonthlyWithdrawal' = withdrawal
         /\ principalOnly' = principal
         /\ data' = Append(data, YearPoint(investment, withdrawal, principal))
  /\ year' = year + 1
  /\ pc' = "yearStart"
  /\ UNCHANGED << params, currentYear, month, monthlyReturn,
                  capitalAtRetirement, capital, totalInvested, totalWithdrawn,
                  isCapitalDepleted, capitalAtStart, annualInvestment,
                  annualWithdrawal, annualInterest, graphData, workerVars,
                  syncVars >>

\* the locals of calculateSimulation, which no call keeps
LocalsCleared ==
  /\ year' = 0
  /\ month' = 0
  /\ data' = << >>
  /\ monthlyReturn' = 0
  /\ capitalAtRetirement' = 0
  /\ capital' = 0
  /\ principalOnly' = 0
  /\ currentMonthlyInvestment' = 0
  /\ currentMonthlyWithdrawal' = 0
  /\ totalInvested' = 0
  /\ totalWithdrawn' = 0
  /\ isCapitalDepleted' = FALSE
  /\ capitalAtStart' = 0
  /\ annualInvestment' = 0
  /\ annualWithdrawal' = 0
  /\ annualInterest' = 0

\* useEffect(() => setGraphData(calculatedData)) (lines 352-359): the
\* returned data become the displayed series
SetGraphData ==
  /\ pc = "done"
  /\ graphData' = data
  /\ pc' = "shown"
  /\ LocalsCleared
  /\ UNCHANGED << params, currentYear, workerVars, syncVars >>

\* the memoised calculation runs again with the same parameter values (the
\* component is mounted again, or a parameter was changed and changed
\* back); the clock may have passed a new year in between
Recalculate ==
  /\ pc = "shown"
  /\ currentYear' \in currentYear..(BaseYear + ClockYears - 1)
  /\ pc' = "idle"
  /\ UNCHANGED << params, year, month, data, monthlyReturn,
                  capitalAtRetirement, capital, principalOnly,
                  currentMonthlyInvestment, currentMonthlyWithdrawal,
                  totalInvested, totalWithdrawn, isCapitalDepleted,
                  capitalAtStart, annualInvestment, annualWithdrawal,
                  annualInterest, graphData, workerVars, syncVars >>

Next ==
  \/ StartSimulation
  \/ YearStart
  \/ MonthStep
  \/ AnnualStep
  \/ YearEnd
  \/ SetGraphData
  \/ Recalculate

Spec == Init /\ [][Next]_vars

\* ---------------------------------------------------------------------
\* The retirement age/year field of ParametersSection
\* ---------------------------------------------------------------------
\* longest text typed into the field
MaxInputLen == 4

\* the digits typed, and a character that is not a digit
InputDigits == {0, 2, 9}
NonDigit == 10

Strings(alphabet, n) == UNION { [1..k -> alphabet] : k \in 0..n }

\* value.replace(/\D/g, '')
DigitsOnly(value) == SelectSeq(value, LAMBDA c : c \in 0..9)

\* the leading digits of a text, which parseInt reads
RECURSIVE LeadingDigits(_)
LeadingDigits(value) ==
  IF Len(value) = 0 \/ value[1] \notin 0..9 THEN << >>
  ELSE <<value[1]>> \o LeadingDigits(Tail(value))

\* parseInt(value) (NaN without a leading digit)
parseInt(value) ==
  IF LeadingDigits(value) = << >> THEN NaN ELSE Number(LeadingDigits(value))

\* onParamChange('retirementInput', n): the parameter becomes the number n
WithRetirementNumber(n) ==
  [params EXCEPT !.retirementInput = Digits(n),
                 !.retirementInputType = "number"]

\* handleInputChange('retirementInput', value) (lines 256-300)
handleInputChange ==
  /\ pc = "idle"
  /\ \E value \in Strings(InputDigits \cup {NonDigit}, MaxInputLen) :
       LET validatedValue == DigitsOnly(value)
       IN  params' = IF validatedValue # << >>
                     THEN WithRetirementNumber(Number(validatedValue))
                     ELSE params
  /\ UNCHANGED << currentYear, pc, year, month, data, monthlyReturn,
                  capitalAtRetirement, capital, principalOnly,
                  currentMonthlyInvestment, currentMonthlyWithdrawal,
                  totalInvested, totalWithdrawn, isCapitalDepleted,
                  capitalAtStart, annualInvestment, annualWithdrawal,
                  annualInterest, graphData, workerVars, syncVars >>

\* the constraints of the retirement input (line 314)
RetirementInputMin == 50
RetirementInputMax == 80
RetirementInputDefault == 60

\* handleInputBlur('retirementInput', value) (lines 302-345)
handleInputBlur ==
  /\ pc = "idle"
  /\ \E value \in Strings(InputDigits \cup {NonDigit}, MaxInputLen) :
       LET parsed == parseInt(value)
           parsedValue ==
             IF parsed = NaN \/ parsed = 0 THEN RetirementInputDefault
             ELSE parsed
           bounded ==
             IF parsedValue > RetirementInputMax THEN RetirementInputMax
             ELSE IF parsedValue < RetirementInputMin THEN RetirementInputMin
             ELSE parsedValue
       IN  params' = WithRetirementNumber(bounded)
  /\ UNCHANGED << currentYear, pc, year, month, data, monthlyReturn,
                  capitalAtRetirement, capital, principalOnly,
                  currentMonthlyInvestment, currentMonthlyWithdrawal,
                  totalInvested, totalWithdrawn, isCapitalDepleted,
                  capitalAtStart, annualInvestment, annualWithdrawal,
                  annualInterest, graphData, workerVars, syncVars >>

\* the plans whose retirement input is any text of digits
InputPlans ==
  { [p EXCEPT !.retirementInput = str] :
      p \in { q \in ScenarioA : /\ q.withdrawalMode = "amount"
                                /\ q.compoundFrequency = "monthly" },
      str \in Strings(InputDigits, MaxInputLen) }

InputInit ==
  /\ params \in InputPlans
  /\ currentYear = BaseYear
  /\ pc = "idle"
  /\ year = 0
  /\ month = 0
  /\ data = << >>
  /\ monthlyReturn = 0
  /\ capitalAtRetirement = 0
  /\ capital = 0
  /\ principalOnly = 0
  /\ currentMonthlyInvestment = 0
  /\ currentMonthlyWithdrawal = 0
  /\ totalInvested = 0
  /\ totalWithdrawn = 0
  /\ isCapitalDepleted = FALSE
  /\ capitalAtStart = 0
  /\ annualInvestment = 0
  /\ annualWithdrawal = 0
  /\ annualInterest = 0
  /\ graphData = << >>
  /\ PoolEmpty
  /\ SyncIdle

InputNext ==
  \/ handleInputChange
  \/ handleInputBlur

InputSpec == InputInit /\ [][InputNext]_vars

\* ---------------------------------------------------------------------
\* The statistics derived from the displayed series (lines 382-448)
\* ---------------------------------------------------------------------
lastPoint == graphData[Len(graphData)]

finalCapital == IF Len(graphData) > 0 THEN lastPoint.capital ELSE 0

isCapitalExhausted == Len(graphData) > 0 /\ Leq(lastPoint.capital, 0)

\* the point the older statistics report: the last one (part_007, 304-305)
lastExhaustionPoint == lastPoint

\* graphData.find(point => point.capital <= 0), for an exhausted series
firstExhaustionPoint ==
  graphData[CHOOSE i \in 1..Len(graphData) :
              /\ Leq(graphData[i].capital, 0)
              /\ \A k \in 1..(i - 1) : ~Leq(graphData[k].capital, 0)]

exhaustionYear ==
  IF isCapitalExhausted THEN firstExhaustionPoint.year ELSE "Not exhausted"

exhaustionAge ==
  IF isCapitalExhausted THEN firstExhaustionPoint.age ELSE retirementStartAge

\* graphData.findIndex(item => item.retirement === "Yes"), counted from 1;
\* 0 when there is none
retirementYearIndex ==
  IF \E i \in 1..Len(graphData) : graphData[i].retirement = "Yes"
  THEN CHOOSE i \in 1..Len(graphData) :
         /\ graphData[i].retirement = "Yes"
         /\ \A k \in 1..(i - 1) : graphData[k].retirement # "Yes"
  ELSE 0

\* const exhaustionIndex = graphData.length - 1, counted from 1
exhaustionIndex == Len(graphData)

\* the duration calculateNeededCapital uses (lines 412-421)
effectiveRetirementDuration ==
  IF params.withdrawalMode = "amount" /\ isCapitalExhausted
       /\ retirementYearIndex # 0
  THEN exhaustionIndex - retirementYearIndex + 1
  ELSE retirementDuration

totalNeededCapital ==
  calculateCapitalNeeded(params.monthlyRetirementWithdrawal,
                         params.annualReturnRate, effectiveRetirementDuration,
                         params.inflation, params.compoundFrequency)

\* ---------------------------------------------------------------------
\* The effect that writes the solved withdrawal back into the parameters
\* (lines 504-561)
\* ---------------------------------------------------------------------
\* the dependencies of the effect: getBirthYear changes with currentAge,
\* getRetirementYear with retirementInput and currentAge
SyncDeps ==
  { "withdrawalMode", "maxAge", "annualReturnRate", "inflation",
    "currentAge", "retirementInput", "retirementInputType",
    "initialCapital", "monthlyInvestment", "withdrawalRate",
    "compoundFrequency" }

\* the effect runs again after a render in which a dependency changed
DepsChanged(before, after) == \E key \in SyncDeps : before[key] # after[key]

\* the capital the effect expects at retirement
estimatedCapital ==
  calculateFutureValue(params.initialCapital, params.annualReturnRate,
                       retirementStartIndex, params.monthlyInvestment,
                       params.compoundFrequency)

\* the withdrawal the effect solves for
calculatedWithdrawal ==
  IF params.withdrawalMode = "age"
  THEN calculateWithdrawalAmount(estimatedCapital, params.annualReturnRate,
                                 retirementDuration, params.inflation,
                                 params.compoundFrequency)
  ELSE calculateRateBasedWithdrawal(estimatedCapital, params.withdrawalRate)

\* the condition under which the effect writes back (lines 534-535 and
\* 554-555)
WritesBack ==
  /\ ~IsNaN(calculatedWithdrawal)
  /\ IsFinite(calculatedWithdrawal)
  /\ Abs(Sub(calculatedWithdrawal, params.monthlyRetirementWithdrawal))
       > Money(1)

\* the values the user sets a parameter to
ParamValues(key) ==
  CASE key = "withdrawalMode" -> {"amount", "age", "rate"}
    [] key = "maxAge" -> {DefaultMaxAge - 3, DefaultMaxAge}
    [] key = "annualReturnRate" -> {0, 7}
    [] key = "monthlyInvestment" -> {0, Money(500)}
    [] key = "monthlyRetirementWithdrawal" -> {Money(100), Money(2000)}

ParamKeys ==
  { "withdrawalMode", "maxAge", "annualReturnRate", "monthlyInvestment",
    "monthlyRetirementWithdrawal" }

\* handleParamChange(key, value), and the render that follows it.  The
\* withdrawal field is shown in the amount mode only, the target age in
\* the age mode only
handleParamChange(key, value) ==
  /\ ~effectPending
  /\ changes < MaxChanges
  /\ key = "monthlyRetirementWithdrawal" => params.withdrawalMode = "amount"
  /\ key = "maxAge" => params.withdrawalMode = "age"
  /\ value # params[key]
  /\ params' = [params EXCEPT ![key] = value]
  /\ effectPending' = DepsChanged(params, params')
  /\ updates' = 0
  /\ changes' = changes + 1
  /\ UNCHANGED << currentYear, loopVars, graphData, workerVars >>

\* the effect after a render in which one of its dependencies changed, and
\* the render that follows its setParams
WithdrawalSync ==
  /\ effectPending
  /\ updates < MaxUpdates
  /\ IF /\ \/ params.withdrawalMode = "age"
            \/ RateMode
         /\ WritesBack
     THEN /\ params' =
               [params EXCEPT !.monthlyRetirementWithdrawal =
                                MathRound(calculatedWithdrawal)]
          /\ updates' = updates + 1
     ELSE UNCHANGED << params, updates >>
  /\ effectPending' = DepsChanged(params, params')
  /\ UNCHANGED << currentYear, loopVars, graphData, workerVars, changes >>

\* the simulator is mounted with a plan: the effect runs after the first
\* render
SyncInit ==
  /\ params \in Plans
  /\ currentYear = BaseYear
  /\ pc = "idle"
  /\ year = 0
  /\ month = 0
  /\ data = << >>
  /\ monthlyReturn = 0
  /\ capitalAtRetirement = 0
  /\ capital = 0
  /\ principalOnly = 0
  /\ currentMonthlyInvestment = 0
  /\ currentMonthlyWithdrawal = 0
  /\ totalInvested = 0
  /\ totalWithdrawn = 0
  /\ isCapitalDepleted = FALSE
  /\ capitalAtStart = 0
  /\ annualInvestment = 0
  /\ annualWithdrawal = 0
  /\ annualInterest = 0
  /\ graphData = << >>
  /\ PoolEmpty
  /\ effectPending = TRUE
  /\ updates = 0
  /\ changes = 0

SyncNext ==
  \/ \E key \in ParamKeys : \E value \in ParamValues(key) :
       handleParamChange(key, value)
  \/ WithdrawalSync

SyncSpec == SyncInit /\ [][SyncNext]_vars

\* ---------------------------------------------------------------------
\* The worker pool (hooks/useWorker), the scheduleDetails worker and the
\* ScheduleDetails tables that use it
\* ---------------------------------------------------------------------
\* a row of the schedule: the fields of a data point that the table
\* filters and sorts by
Row(y, c, r) == [year |-> y, capital |-> c, retirement |-> r]

\* a plan over the last years before the horizon, monthly compounding
SamplePlan(initialCapital, monthlyInvestment, rate, retirementAge, mode) ==
  [ initialCapital |-> initialCapital,
    monthlyInvestment |-> monthlyInvestment,
    annualReturnRate |-> rate,
    inflation |-> 2,
    monthlyRetirementWithdrawal |-> Money(2000),
    currentAge |-> DefaultMaxAge - 5,
    retirementInput |-> Digits(retirementAge),
    retirementInputType |-> "string",
    withdrawalMode |-> mode,
    maxAge |-> DefaultMaxAge,
    withdrawalRate |-> 4,
    compoundFrequency |-> "monthly" ]

\* three plans with the series calculateSimulation returns for them: a
\* capital that grows, shrinks and runs out; no capital left from the
\* first year on; a capital that is NaN in retirement
Samples ==
  { [ plan |-> SamplePlan(Money(10000), Money(500), 7, 92, "amount"),
      series |->
        << Row(BaseYear, 168890, "No"), Row(BaseYear + 1, 243840, "No"),
           Row(BaseYear + 2, 225400, "Yes"), Row(BaseYear + 3, 0, "Yes"),
           Row(BaseYear + 4, 0, "Yes"), Row(BaseYear + 5, 0, "Yes") >> ],
    [ plan |-> SamplePlan(Money(1200) + 3, 0, 7, 90, "amount"),
      series |->
        << Row(BaseYear, 0, "Yes"), Row(BaseYear + 1, 0, "Yes"),
           Row(BaseYear + 2, 0, "Yes"), Row(BaseYear + 3, 0, "Yes"),
           Row(BaseYear + 4, 0, "Yes"), Row(BaseYear + 5, 0, "Yes") >> ],
    [ plan |-> SamplePlan(Money(10000), Money(500), 0, 92, "age"),
      series |->
        << Row(BaseYear, 160000, "No"), Row(BaseYear + 1, 221200, "No"),
           Row(BaseYear + 2, NaN, "Yes"), Row(BaseYear + 3, NaN, "Yes"),
           Row(BaseYear + 4, NaN, "Yes"), Row(BaseYear + 5, NaN, "Yes") >> ] }

\* the columns sorted by, and the phases filtered by
SortKeys == {"year", "capital"}
Phases == {"all", "investment", "retirement"}

\* a comparator that does not look at the direction
CompareAscending(a, b, sortConfig) ==
  IF Lt(a[sortConfig.key], b[sortConfig.key]) THEN -1
  ELSE IF Lt(b[sortConfig.key], a[sortConfig.key]) THEN 1
  ELSE 0

\* the comparator handed to Array.prototype.sort
Compare(a, b, sortConfig) ==
  IF Lt(a[sortConfig.key], b[sortConfig.key])
  THEN (IF sortConfig.direction = "ascending" THEN -1 ELSE 1)
  ELSE IF Lt(b[sortConfig.key], a[sortConfig.key])
  THEN (IF sortConfig.direction = "ascending" THEN 1 ELSE -1)
  ELSE 0

\* Array.prototype.sort, which is stable: an element is inserted behind
\* every element that does not compare greater than it
RECURSIVE Insert(_, _, _)
Insert(sorted, x, sortConfig) ==
  IF sorted = << >> THEN << x >>
  ELSE IF Compare(sorted[Len(sorted)], x, sortConfig) > 0
  THEN Append(Insert(SubSeq(sorted, 1, Len(sorted) - 1), x, sortConfig),
              sorted[Len(sorted)])
  ELSE Append(sorted, x)

RECURSIVE ArraySort(_, _)
ArraySort(rows, sortConfig) ==
  IF rows = << >> THEN << >>
  ELSE Insert(ArraySort(SubSeq(rows, 1, Len(rows) - 1), sortConfig),
              rows[Len(rows)], sortConfig)

\* the body of the FILTER_AND_SORT_DATA case
FilterAndSort(rows, filteredPhase, sortConfig) ==
  LET filteredData ==
        IF filteredPhase # "all"
        THEN SelectSeq(rows,
               LAMBDA point :
                 IF filteredPhase = "investment" THEN point.retirement = "No"
                 ELSE IF filteredPhase = "retirement"
                 THEN point.retirement = "Yes"
                 ELSE TRUE)
        ELSE rows
  IN  IF sortConfig.key # "null" THEN ArraySort(filteredData, sortConfig)
      ELSE filteredData

\* the message a table posts for its filter and its sort
FilterMessage(c, filteredPhase, sortConfig) ==
  [ type |-> "FILTER_AND_SORT_DATA", payload |-> "rows", owner |-> c,
    filteredPhase |-> filteredPhase, sortConfig |-> sortConfig,
    id |-> posted + 1 ]

\* a message the worker cannot serve: a type it does not know, or a
\* FILTER_AND_SORT_DATA message without a payload
OtherMessages(c) ==
  { [ type |-> t, payload |-> "none", owner |-> c, filteredPhase |-> "all",
      sortConfig |-> InitialView.sortConfig, id |-> posted + 1 ] :
      t \in {"FILTER_AND_SORT_DATA", "CALCULATE_SUMMARY"} }

\* a worker that stays silent on a message type it does not know
ResponsesKnownOnly(message) ==
  IF message.type = "FILTER_AND_SORT_DATA"
  THEN IF message.payload = "rows"
       THEN << [ type |-> "FILTERED_SORTED_DATA_RESULT", request |-> message,
                 data |-> FilterAndSort(graphData, message.filteredPhase,
                                        message.sortConfig) ] >>
       ELSE << [ type |-> "ERROR", request |-> message, data |-> << >> ] >>
  ELSE << >>

\* ctx.onmessage: the messages the worker posts for a message it takes.
\* Destructuring a missing payload throws inside the try block.  The field
\* request is not part of the response, and neither are the fields id and
\* owner part of a message: they only record which message was answered
Responses(message) ==
  IF message.type = "FILTER_AND_SORT_DATA"
  THEN IF message.payload = "rows"
       THEN << [ type |-> "FILTERED_SORTED_DATA_RESULT", request |-> message,
                 data |-> FilterAndSort(graphData, message.filteredPhase,
                                        message.sortConfig) ] >>
       ELSE << [ type |-> "ERROR", request |-> message, data |-> << >> ] >>
  ELSE << [ type |-> "ERROR", request |-> message, data |-> << >> ] >>

\* postWorkerMessage(message, callback) called by component c
postWorkerMessage(c, message, withCallback) ==
  IF workerPool = "null"
  THEN UNCHANGED << posted, listeners, inbox >>
  ELSE /\ posted' = posted + 1
       /\ listeners' =
            IF withCallback
            THEN Append(listeners, [request |-> message.id, owner |-> c])
            ELSE listeners
       /\ inbox' = Append(inbox, message)

\* a table is mounted: the effect of useWorker counts it and creates the
\* worker if the pool has none, then the effect of the table posts its
\* first message.  Unmounted tables do not differ, so the table mounted
\* is the first unmounted one
Mount(c) ==
  /\ c \notin mounted
  /\ \A d \in Components : d < c => d \in mounted
  /\ posted < MaxRequests
  /\ mounted' = mounted \cup {c}
  /\ workerUsageCount' = workerUsageCount + 1
  /\ workerPool' = "worker"
  /\ posted' = posted + 1
  /\ listeners' = Append(listeners, [request |-> posted + 1, owner |-> c])
  /\ inbox' = Append(inbox, FilterMessage(c, view[c].filteredPhase,
                                          view[c].sortConfig))
  /\ UNCHANGED << timers, outbox, view, simVars >>

\* a cleanup that starts no timer
CleanupNoTimer(count) == timers

\* the cleanup of the effect starts the timer when the count reaches zero
Cleanup(count) == IF count = 0 THEN timers + 1 ELSE timers

\* a table is unmounted: the cleanup of the effect of useWorker.  The state
\* of the table is gone, and the callbacks it registered have nothing left
\* to update
Unmount(c) ==
  /\ c \in mounted
  /\ Cleanup(workerUsageCount - 1) <= MaxTimers
  /\ mounted' = mounted \ {c}
  /\ workerUsageCount' = workerUsageCount - 1
  /\ timers' = Cleanup(workerUsageCount - 1)
  /\ listeners' =
       [i \in 1..Len(listeners) |->
          IF listeners[i].owner = c
          THEN [listeners[i] EXCEPT !.owner = 0]
          ELSE listeners[i]]
  /\ view' = [view EXCEPT ![c] = InitialView]
  /\ UNCHANGED << workerPool, inbox, outbox, posted, simVars >>

\* a timer callback that terminates without looking at the count again
TerminatesUnchecked == workerPool # "null"

\* the condition of the timer callback
Terminates == workerUsageCount = 0 /\ workerPool # "null"

\* the callback of setTimeout, 1000 ms after a cleanup that left the count
\* at zero.  terminate() discards what the worker had not yet handled and
\* what it had posted; its listeners go with the worker object
TimerFires ==
  /\ timers > 0
  /\ timers' = timers - 1
  /\ IF Terminates
     THEN /\ workerPool' = "null"
          /\ inbox' = << >>
          /\ outbox' = << >>
          /\ listeners' = << >>
     ELSE UNCHANGED << workerPool, inbox, outbox, listeners >>
  /\ UNCHANGED << mounted, workerUsageCount, posted, view, simVars >>

\* handleSort(key) of a table, and the effect that follows the new sort
handleSort(c, key) ==
  /\ c \in mounted
  /\ posted < MaxRequests
  /\ LET direction ==
           IF /\ view[c].sortConfig.key = key
              /\ view[c].sortConfig.direction = "ascending"
           THEN "descending"
           ELSE "ascending"
         sortConfig == [key |-> key, direction |-> direction]
     IN  /\ view' = [view EXCEPT ![c].sortConfig = sortConfig]
         /\ postWorkerMessage(c, FilterMessage(c, view[c].filteredPhase,
                                               sortConfig), TRUE)
  /\ UNCHANGED << mounted, workerUsageCount, workerPool, timers, outbox,
                  simVars >>

\* handlePhaseFilter(phase) of a table, and the effect that follows a
\* changed phase
handlePhaseFilter(c, phase) ==
  /\ c \in mounted
  /\ posted < MaxRequests
  /\ phase # view[c].filteredPhase
  /\ view' = [view EXCEPT ![c].filteredPhase = phase]
  /\ postWorkerMessage(c, FilterMessage(c, phase, view[c].sortConfig), TRUE)
  /\ UNCHANGED << mounted, workerUsageCount, workerPool, timers, outbox,
                  simVars >>

\* a component posts a message the worker cannot serve, without a callback
PostOther(c) ==
  /\ c \in mounted
  /\ posted < MaxRequests
  /\ \E message \in OtherMessages(c) : postWorkerMessage(c, message, FALSE)
  /\ UNCHANGED << mounted, workerUsageCount, workerPool, timers, outbox,
                  view, simVars >>

\* the worker takes the next message and runs ctx.onmessage on it
WorkerHandles ==
  /\ workerPool # "null"
  /\ inbox # << >>
  /\ outbox' = outbox \o Responses(Head(inbox))
  /\ inbox' = Tail(inbox)
  /\ UNCHANGED << mounted, workerUsageCount, workerPool, timers, listeners,
                  posted, view, simVars >>

\* the callback a table hands to postWorkerMessage
Callback(c, response) ==
  IF response.type = "ERROR" THEN view[c]
  ELSE IF response.type = "FILTERED_SORTED_DATA_RESULT"
  THEN [view[c] EXCEPT !.processedData = response.data]
  ELSE view[c]

\* a message event on the worker object: every handler registered on it
\* is called with the response and removes itself
MessageEvent ==
  /\ workerPool # "null"
  /\ outbox # << >>
  /\ view' =
       [c \in Components |->
          IF \E i \in 1..Len(listeners) : listeners[i].owner = c
          THEN Callback(c, Head(outbox))
          ELSE view[c]]
  /\ listeners' = << >>
  /\ outbox' = Tail(outbox)
  /\ UNCHANGED << mounted, workerUsageCount, workerPool, timers, inbox,
                  posted, simVars >>

\* the tables and the pool run next to a series that is already displayed
WorkerInit ==
  /\ \E sample \in Samples : /\ params = sample.plan
                              /\ graphData = sample.series
  /\ currentYear = BaseYear
  /\ pc = "shown"
  /\ year = 0
  /\ month = 0
  /\ data = << >>
  /\ monthlyReturn = 0
  /\ capitalAtRetirement = 0
  /\ capital = 0
  /\ principalOnly = 0
  /\ currentMonthlyInvestment = 0
  /\ currentMonthlyWithdrawal = 0
  /\ totalInvested = 0
  /\ totalWithdrawn = 0
  /\ isCapitalDepleted = FALSE
  /\ capitalAtStart = 0
  /\ annualInvestment = 0
  /\ annualWithdrawal = 0
  /\ annualInterest = 0
  /\ PoolEmpty
  /\ SyncIdle

WorkerNext ==
  \/ \E c \in Components : Mount(c)
  \/ \E c \in Components : Unmount(c)
  \/ TimerFires
  \/ \E c \in Components, key \in SortKeys : handleSort(c, key)
  \/ \E c \in Components, phase \in Phases : handlePhaseFilter(c, phase)
  \/ \E c \in Components : PostOther(c)
  \/ WorkerHandles
  \/ MessageEvent

WorkerSpec == WorkerInit /\ [][WorkerNext]_vars

\* the timer of setTimeout fires after its delay
FairWorkerSpec == WorkerSpec /\ WF_vars(TimerFires)

\* ---------------------------------------------------------------------
\* Properties
\* ---------------------------------------------------------------------
Points == 1..Len(data)

\* C1: every data point of the projection has capital >= 0, for every plan,
\* both compounding modes and every withdrawal mode.
C1_CapitalNonNegative ==
  \A i \in Points : Leq(0, data[i].capital)

\* C2: depletion is absorbing: after a data point with capital 0, every later
\* data point has capital 0 and no interest, investment or withdrawal.
C2_DepletionAbsorbing ==
  \A i \in Points : \A j \in Points :
    (i < j /\ data[i].capital = 0)
      => /\ data[j].capital = 0
         /\ data[j].annualInterest = 0
         /\ data[j].annualInvestment = 0
         /\ data[j].annualWithdrawal = 0

\* a year that starts without capital gets the all-zero data point
ZeroPointPushed ==
  (pc = "yearStart" /\ LoopContinues /\ Leq(capital, 0))
    => /\ Len(data') = Len(data) + 1
       /\ data'[Len(data')].capital = 0
       /\ data'[Len(data')].annualInterest = 0
       /\ data'[Len(data')].annualInvestment = 0
       /\ data'[Len(data')].annualWithdrawal = 0
       /\ capital' = capital

\* C3: the projection does not stop at depletion: the returned sequence has
\* a data point for every year from the current age to the horizon, and a
\* year that starts without capital contributes a zero-valued data point.
C3_NoEarlyStop ==
  /\ [](pc = "done" => Len(data) = simulationDuration + 1)
  /\ [](\A i \in Points : data[i].age = params.currentAge + i - 1)
  /\ [][ZeroPointPushed]_vars

C3_Witness ==
  /\ pc = "done"
  /\ \E i \in Points :
       /\ i + 1 < Len(data)
       /\ data[i].capital = 0
       /\ data[i].annualWithdrawal > 0
       /\ data[Len(data)].annualWithdrawal = 0

\* the index of the first data point without capital, 0 if there is none
FirstDepleted ==
  IF \E i \in Points : Leq(data[i].capital, 0)
  THEN CHOOSE i \in Points :
         /\ Leq(data[i].capital, 0)
         /\ \A k \in 1..(i - 1) : ~Leq(data[k].capital, 0)
  ELSE 0

\* one data point per year, in increasing order, starting at the current
\* calendar year and the current age
Chronological ==
  /\ Len(data) >= 1
  /\ data[1].year = currentYear
  /\ data[1].age = params.currentAge
  /\ \A i \in 1..(Len(data) - 1) :
       /\ data[i + 1].year = data[i].year + 1
       /\ data[i + 1].age = data[i].age + 1

\* C4 as stated: the result is chronological, one data point per year from
\* the current year and age, and ends at min(horizon, depletion age).
C4_EndsAtDepletionOrHorizon ==
  pc = "done" =>
    /\ Chronological
    /\ data[Len(data)].age =
         IF FirstDepleted # 0 /\ data[FirstDepleted].age < targetMaxAge
         THEN data[FirstDepleted].age
         ELSE targetMaxAge

\* C4 (amended): for a horizon not below the current age, the result is
\* chronological, one data point per year from the current year and age,
\* and ends at the horizon age whether or not the capital ran out earlier.
C4_EndsAtHorizon ==
  (pc = "done" /\ targetMaxAge >= params.currentAge) =>
    /\ Chronological
    /\ data[Len(data)].age = targetMaxAge
    /\ data[Len(data)].targetAge

C4_Witness ==
  /\ pc = "done"
  /\ FirstDepleted # 0
  /\ FirstDepleted < Len(data)
  /\ data[Len(data)].age = targetMaxAge

\* the loop enters the retirement year, which is not the first simulated year
EntersRetirementYear ==
  pc = "yearStart" /\ LoopContinues /\ isTransitionYear /\ year > 0

\* C5: entering the retirement year (not the first simulated year), the
\* capital the year starts with is max(natural growth of the previous data
\* point, closed-form capital at retirement), so it is not below the
\* previous data point's capital.
C5_RetirementYearReconciled ==
  [][EntersRetirementYear =>
       /\ capital' = MathMax(NaturalGrowth(data[Len(data)].capital),
                              capitalAtRetirement)
       /\ ~Lt(capital', data[Len(data)].capital)]_vars

IsScenarioA ==
  /\ params.initialCapital = Money(150000)
  /\ params.monthlyInvestment = Money(500)
  /\ params.annualReturnRate = 7
  /\ params.inflation = 2
  /\ params.currentAge = 46
  /\ Number(params.retirementInput) = 60
  /\ targetMaxAge = 95

\* |a - b| <= 1% of b, for finite amounts
WithinOnePercent(a, b) ==
  IsFinite(a) /\ IsFinite(b) /\ 100 * Abs(a - b) <= Abs(b)

\* C6: in Scenario A the capital of the first retirement-year data point is
\* within 1% of the natural-growth projection of the last data point before
\* retirement.
C6_ScenarioANoDiscontinuity ==
  [][(IsScenarioA /\ pc = "yearEnd" /\ isTransitionYear /\ year > 0) =>
       WithinOnePercent(data'[Len(data')].capital,
                        NaturalGrowth(data[Len(data)].capital))]_vars

\* C7: a data point of a year before the retirement year records no
\* withdrawal (none in the year, none in total); a data point of a year after
\* the retirement year records no investment.
C7_PhaseCashFlows ==
  \A i \in Points :
    /\ data[i].year < calculatedRetirementStartYear
         => data[i].annualWithdrawal = 0 /\ data[i].totalWithdrawn = 0
    /\ data[i].year > calculatedRetirementStartYear
         => data[i].annualInvestment = 0

C7_Witness ==
  /\ pc = "done"
  /\ \E i \in Points : \E j \in Points :
       /\ data[i].year < calculatedRetirementStartYear
       /\ data[i].annualInvestment > 0
       /\ data[j].year > calculatedRetirementStartYear
       /\ IsFinite(data[j].annualWithdrawal)
       /\ data[j].annualWithdrawal > 0

\* a month of the transition year (not year zero) that the loop processes
TransitionMonth ==
  /\ pc = "months" /\ month < 12 /\ ~Leq(capital, 0)
  /\ isTransitionYear /\ year > 0

TransitionAnnual ==
  /\ pc = "annual" /\ ~Leq(capital, 0)
  /\ isTransitionYear /\ year > 0

\* C8: in the transition year (not year zero) the months 0-5 make an
\* investment and no withdrawal, the months 6-11 a withdrawal and no
\* investment; under annual compounding the year has six months of
\* investment and six months of withdrawal.
C8_TransitionYearSplit ==
  [][/\ (TransitionMonth /\ month <= 5) =>
          /\ annualInvestment' = Add(annualInvestment, currentMonthlyInvestment)
          /\ totalInvested' = Add(totalInvested, currentMonthlyInvestment)
          /\ annualWithdrawal' = annualWithdrawal
          /\ totalWithdrawn' = totalWithdrawn
     /\ (TransitionMonth /\ month >= 6) =>
          /\ annualWithdrawal' = Add(annualWithdrawal, currentMonthlyWithdrawal)
          /\ totalWithdrawn' = Add(totalWithdrawn, currentMonthlyWithdrawal)
          /\ annualInvestment' = annualInvestment
          /\ totalInvested' = totalInvested
     /\ TransitionAnnual =>
          /\ annualInvestment' = MulInt(currentMonthlyInvestment, 6)
          /\ annualWithdrawal' = MulInt(currentMonthlyWithdrawal, 6)
    ]_vars

C8_Witness ==
  /\ pc = "yearStart"
  /\ year > 1
  /\ currentYear + year - 1 = calculatedRetirementStartYear
  /\ data[Len(data)].annualInvestment > 0
  /\ IsFinite(data[Len(data)].annualWithdrawal)
  /\ data[Len(data)].annualWithdrawal > 0
  /\ data[Len(data)].capital > 0

\* a month of withdrawal that the loop processes
DecumulationMonth ==
  pc = "months" /\ month < 12 /\ ~Leq(capital, 0) /\ ~InvestmentMonth

\* C9: under the rate strategy the monthly withdrawal is recalculated in
\* every month of withdrawal (those of the transition year included) as
\* capital * (rate / 100) / 12 from the balance of that month.
C9_RateRecalculatedMonthly ==
  [][(RateMode /\ DecumulationMonth) =>
       currentMonthlyWithdrawal' =
         calculateRateBasedWithdrawal(
           Add(capital, MulRate(capital, monthlyReturn)),
           params.withdrawalRate)]_vars

\* the loop of a run is executing
InLoop == pc \in {"yearStart", "months", "annual", "yearEnd"}

\* C10: under the fixed-amount and target-age strategies the withdrawal is
\* never derived from the capital again: the run starts with the resolved
\* amount (the literal amount for a fixed amount), every withdrawal takes
\* the current amount, the first one the resolved amount, and the amount
\* changes only by the inflation adjustment at the end of a year.
C10_WithdrawalFixedAtRetirement ==
  [][~RateMode =>
       /\ pc = "idle" =>
            /\ currentMonthlyWithdrawal' =
                 ResolveWithdrawal(capitalAtRetirement')
            /\ params.withdrawalMode # "age" =>
                 currentMonthlyWithdrawal' = params.monthlyRetirementWithdrawal
       /\ (InLoop /\ currentMonthlyWithdrawal' # currentMonthlyWithdrawal)
            => /\ pc = "yearEnd"
               /\ currentMonthlyWithdrawal' = Inflate(currentMonthlyWithdrawal)
       /\ (pc = "months" /\ totalWithdrawn' # totalWithdrawn)
            => totalWithdrawn' = Add(totalWithdrawn, currentMonthlyWithdrawal)
       /\ (pc = "annual" /\ totalWithdrawn' # totalWithdrawn)
            => totalWithdrawn' =
                 Add(totalWithdrawn,
                     MulInt(currentMonthlyWithdrawal,
                            IF isTransitionYear THEN 6 ELSE 12))
       /\ (InLoop /\ totalWithdrawn = 0 /\ totalWithdrawn' # 0)
            => currentMonthlyWithdrawal = ResolveWithdrawal(capitalAtRetirement)
    ]_vars

C10_Witness ==
  /\ pc = "done"
  /\ ~RateMode
  /\ IsFinite(totalWithdrawn) /\ totalWithdrawn > 0
  /\ IsFinite(currentMonthlyWithdrawal)
  /\ currentMonthlyWithdrawal > ResolveWithdrawal(capitalAtRetirement)
  /\ data[Len(data)].capital > 0

\* the parameter sets the projection is said to reject
InvalidParameters ==
  \/ params.currentAge >= retirementStartAge
  \/ params.annualReturnRate <= -100
  \/ params.inflation <= -100
  \/ targetMaxAge <= params.currentAge
  \/ params.initialCapital < 0
  \/ params.monthlyInvestment < 0
  \/ params.monthlyRetirementWithdrawal < 0

\* C11: for malformed parameters (current age not below the resolved
\* retirement age, a rate of -100% or less, a horizon not above the current
\* age, a negative amount) the projection is rejected before the loop: it
\* never enters the loop and produces no data point.
C11_InvalidParametersRejected ==
  InvalidParameters =>
    /\ pc \in {"idle", "shown"}
    /\ data = << >>
    /\ graphData = << >>

\* C12: the monthly withdrawal the loop works with is always a finite
\* number, whatever the capital at retirement and the retirement duration.
C12_WithdrawalFinite ==
  pc \in {"yearStart", "months", "annual", "yearEnd", "done"}
    => IsFinite(currentMonthlyWithdrawal)

\* the two amounts differ by at most the rounding of the data point
SameAmount(a, b) ==
  IF IsFinite(a) /\ IsFinite(b) THEN Abs(a - b) <= Money(1) ELSE a = b

\* C13: in every data point the net variation excluding interest is the
\* investment of the year minus the withdrawal of the year, the transition
\* year included.
C13_NetCashFlow ==
  \A i \in Points :
    SameAmount(data[i].netVariationExcludingInterest,
               Sub(data[i].annualInvestment, data[i].annualWithdrawal))

\* the displayed point i is the first one without capital
IsFirstWithoutCapital(i) ==
  /\ Leq(graphData[i].capital, 0)
  /\ \A k \in 1..(i - 1) : ~Leq(graphData[k].capital, 0)

\* C14: when the last displayed point has capital <= 0, the reported
\* exhaustion year and age are those of the first displayed point with
\* capital <= 0.
C14_FirstDepletionReported ==
  isCapitalExhausted =>
    \E i \in 1..Len(graphData) :
      /\ IsFirstWithoutCapital(i)
      /\ exhaustionYear = graphData[i].year
      /\ exhaustionAge = graphData[i].age

C14_Witness ==
  /\ pc = "shown"
  /\ isCapitalExhausted
  /\ ~IsFirstWithoutCapital(Len(graphData))
  /\ exhaustionYear < lastPoint.year
  /\ exhaustionYear > graphData[1].year

\* the number of displayed years from the first retirement year to the
\* first year without capital, both included
RealizedSpan ==
  (CHOOSE i \in 1..Len(graphData) : IsFirstWithoutCapital(i))
    - retirementYearIndex + 1

\* C15: under the fixed-amount strategy, when the capital runs out before
\* the horizon, the needed capital is computed over the years from the
\* retirement year to the first year without capital.
C15_NeededCapitalOverRealizedSpan ==
  (/\ params.withdrawalMode = "amount"
   /\ isCapitalExhausted
   /\ retirementYearIndex # 0
   /\ ~IsFirstWithoutCapital(Len(graphData)))
    => /\ effectiveRetirementDuration = RealizedSpan
       /\ totalNeededCapital =
            calculateCapitalNeeded(params.monthlyRetirementWithdrawal,
                                   params.annualReturnRate, RealizedSpan,
                                   params.inflation, params.compoundFrequency)

\* C16: a run with the parameters of an earlier run returns the data of the
\* earlier run, whatever happened in between.
C16_Deterministic ==
  (pc = "done" /\ graphData # << >>) => data = graphData

\* C18: with a positive monthly investment and a return rate >= 0, the
\* capital of the data points does not decrease from one year to the next
\* over the years before the retirement year.
C18_MonotonicAccumulation ==
  (params.monthlyInvestment > 0 /\ params.annualReturnRate >= 0) =>
    \A i \in 1..(Len(data) - 1) :
      data[i + 1].year < calculatedRetirementStartYear
        => Leq(data[i].capital, data[i + 1].capital)

C18_Witness ==
  /\ pc = "done"
  /\ params.monthlyInvestment > 0
  /\ \E i \in 1..(Len(data) - 1) :
       /\ data[i + 1].year < calculatedRetirementStartYear
       /\ data[i].capital > 0
       /\ data[i].capital < data[i + 1].capital
       /\ data[i + 1].annualInvestment > 0

\* C19: calculateFutureValue(P, 0, n, 0) = P for every principal P and every
\* number of years n >= 0, under monthly and annual compounding.
C19_FutureValueZeroRate ==
  (/\ pc \notin {"idle", "shown"}
   /\ params.annualReturnRate = 0
   /\ params.monthlyInvestment = 0
   /\ retirementStartIndex >= 0)
    => capitalAtRetirement = params.initialCapital

IsScenarioB ==
  /\ params.initialCapital = 0
  /\ params.monthlyInvestment = 0
  /\ params.annualReturnRate = 0
  /\ params.inflation = 0
  /\ params.currentAge = 40
  /\ Number(params.retirementInput) = 41
  /\ params.withdrawalMode = "amount"
  /\ params.monthlyRetirementWithdrawal = Money(1000)
  /\ targetMaxAge = 95

\* C20: for Scenario B the reported exhaustion year is the retirement year.
C20_ScenarioBDepletionYear ==
  (IsScenarioB /\ pc = "shown") =>
    /\ isCapitalExhausted
    /\ exhaustionYear = calculatedRetirementStartYear

\* the classification as the heuristic is described: at most two digits, or
\* four digits that do not begin with 20
DescribedAsAge ==
  LET len == Len(params.retirementInput)
  IN  \/ len <= 2
      \/ len = 4 /\ SubSeq(params.retirementInput, 1, 2) # <<2, 0>>

\* C17: a retirement input is taken as an age exactly when it has at most
\* two digits or has four digits that do not begin with 20; every other
\* input (three digits, four digits beginning with 20) is taken as a
\* calendar year.
C17_InputClassification ==
  Len(params.retirementInput) > 0 =>
    (isRetirementInputAnAge <=> DescribedAsAge)

\* C21: the pooled worker is never terminated while its usage count is
\* above zero: a step that empties the pool slot starts and ends with a
\* count of zero, and a counted component always finds a worker in the slot
C21_NoTerminationWhileInUse ==
  /\ [](workerUsageCount > 0 => workerPool = "worker")
  /\ [][(workerPool = "worker" /\ workerPool' = "null")
          => (workerUsageCount = 0 /\ workerUsageCount' = 0)]_vars

\* a termination timer is still pending while a component uses the worker
C21_Witness ==
  /\ workerUsageCount > 0
  /\ timers > 0
  /\ workerPool = "worker"

\* C22: for every message it takes, the worker posts exactly one
\* response, a result or an error, and that response answers the message
C22_OneResponsePerRequest ==
  [][(/\ inbox # << >>
      /\ workerPool' = "worker"
      /\ inbox' = Tail(inbox))
       => (/\ Len(outbox') = Len(outbox) + 1
           /\ SubSeq(outbox', 1, Len(outbox)) = outbox
           /\ outbox'[Len(outbox')].request = Head(inbox)
           /\ outbox'[Len(outbox')].type
                \in {"FILTERED_SORTED_DATA_RESULT", "ERROR"}
           /\ (outbox'[Len(outbox')].type = "FILTERED_SORTED_DATA_RESULT")
                <=> (/\ Head(inbox).type = "FILTER_AND_SORT_DATA"
                     /\ Head(inbox).payload = "rows"))]_vars

\* the worker has answered one message with a result and one with an error
C22_Witness ==
  \E i, j \in 1..Len(outbox) :
    /\ outbox[i].type = "FILTERED_SORTED_DATA_RESULT"
    /\ outbox[j].type = "ERROR"

\* a snapshot belongs to the phase asked for
InPhase(point, filteredPhase) ==
  \/ filteredPhase = "all"
  \/ filteredPhase = "investment" /\ point.retirement = "No"
  \/ filteredPhase = "retirement" /\ point.retirement = "Yes"

\* the rows of a result are exactly the snapshots of the phase
ExactlyThePhase(rows, filteredPhase) ==
  /\ { rows[i] : i \in 1..Len(rows) }
       = { graphData[k] : k \in { n \in 1..Len(graphData) :
                                    InPhase(graphData[n], filteredPhase) } }
  /\ \A i, j \in 1..Len(rows) : rows[i] = rows[j] => i = j

\* no row stands before a row that the field and the direction put first,
\* and rows with the same value keep the order of the series
OrderedAndStable(rows, sortConfig) ==
  \A i, j \in 1..Len(rows) :
    i < j =>
      IF sortConfig.key = "null" THEN rows[i].year < rows[j].year
      ELSE /\ sortConfig.direction = "ascending"
                => ~Lt(rows[j][sortConfig.key], rows[i][sortConfig.key])
           /\ sortConfig.direction = "descending"
                => ~Lt(rows[i][sortConfig.key], rows[j][sortConfig.key])
           /\ rows[i][sortConfig.key] = rows[j][sortConfig.key]
                => rows[i].year < rows[j].year

\* C23: a result of the filter-and-sort holds exactly the snapshots of the
\* requested phase, ordered by the chosen field in the chosen direction,
\* snapshots with the same value in their original order
C23_FilterAndSortResult ==
  \A i \in 1..Len(outbox) :
    outbox[i].type = "FILTERED_SORTED_DATA_RESULT"
      => /\ ExactlyThePhase(outbox[i].data, outbox[i].request.filteredPhase)
         /\ OrderedAndStable(outbox[i].data, outbox[i].request.sortConfig)

\* a result for one phase, sorted by capital, in which sorting moved rows
\* and two rows have the same capital
C23_Witness ==
  \E i \in 1..Len(outbox) :
    LET message == outbox[i].request
        rows == outbox[i].data
    IN  /\ outbox[i].type = "FILTERED_SORTED_DATA_RESULT"
        /\ message.filteredPhase = "retirement"
        /\ message.sortConfig.key = "capital"
        /\ \E a, b \in 1..Len(rows) :
              a < b /\ rows[a].capital = rows[b].capital
        /\ \E a, b \in 1..Len(rows) :
              a < b /\ rows[a].year > rows[b].year

\* C26: requests in flight on the same worker do not interfere: when a
\* response is delivered, the only callback called is that of the request
\* it answers, and no request has two callbacks waiting
C26_CallbackGetsOwnResponse ==
  /\ [][(/\ outbox # << >>
          /\ workerPool' = "worker"
          /\ outbox' = Tail(outbox))
           => \A i \in 1..Len(listeners) :
                listeners[i].request = Head(outbox).request.id]_vars
  /\ [](\A i, j \in 1..Len(listeners) :
          listeners[i].request = listeners[j].request => i = j)

\* every message posted has been handled and every response delivered
Quiet == inbox = << >> /\ outbox = << >>

\* C27: once every response has arrived, a mounted table displays the
\* result of its most recent request, the one for its present filter and
\* sort
C27_LatestRequestDisplayed ==
  \A c \in mounted :
    Quiet => view[c].processedData
               = FilterAndSort(graphData, view[c].filteredPhase,
                               view[c].sortConfig)

\* C28: when the last component has unmounted, the worker is terminated
\* and its pool slot cleared, unless a component mounts again first
C28_EventuallyTerminated ==
  (workerUsageCount = 0 /\ workerPool = "worker")
    ~> (workerPool = "null" \/ workerUsageCount > 0)

\* a worker that served messages has been terminated after the last
\* unmount, and no timer is left
C28_Witness ==
  /\ posted > 0
  /\ workerUsageCount = 0
  /\ workerPool = "null"
  /\ timers = 0

\* an amount grown by the monthly-equivalent inflation factor
GrownOneMonth(amount) == Add(amount, MulRate(amount, monthlyInflation))

\* C24: under monthly compounding every month grows the active amount by
\* the monthly-equivalent inflation factor and leaves the other amount
\* alone: the contribution in a month of accumulation, the withdrawal in a
\* month of decumulation; the end of the year changes neither
C24_MonthlyInflationOfActiveAmount ==
  [][/\ (pc = "months" /\ month' = month + 1 /\ InvestmentMonth)
          => /\ currentMonthlyInvestment'
                  = GrownOneMonth(currentMonthlyInvestment)
             /\ currentMonthlyWithdrawal' = currentMonthlyWithdrawal
     /\ (pc = "months" /\ month' = month + 1 /\ ~InvestmentMonth
            /\ ~RecalculatesThisMonth)
          => /\ currentMonthlyWithdrawal'
                  = GrownOneMonth(currentMonthlyWithdrawal)
             /\ currentMonthlyInvestment' = currentMonthlyInvestment
     /\ (pc = "yearEnd" /\ pc' = "yearStart"
            /\ params.compoundFrequency = "monthly")
          => /\ currentMonthlyInvestment' = currentMonthlyInvestment
             /\ currentMonthlyWithdrawal' = currentMonthlyWithdrawal]_vars

\* the interest credited up to the snapshot of index i, as the snapshots
\* report it year by year
RECURSIVE InterestCredited(_)
InterestCredited(i) ==
  IF i = 0 THEN 0 ELSE Add(InterestCredited(i - 1), data[i].annualInterest)

\* C29: at every snapshot the money withdrawn so far is not more than the
\* initial capital, the contributions so far (both in totalInvested) and
\* the interest credited so far; the yearly interest is reported rounded,
\* which is worth at most one currency unit a year
C29_NoWithdrawalOfMissingMoney ==
  \A i \in Points :
    Leq(data[i].totalWithdrawn,
        Add(Add(data[i].totalInvested, InterestCredited(i)), Money(i)))

\* C30: a plan that starts without capital and with a monthly contribution
\* is not treated as depleted: the snapshot of its first year, a year of
\* accumulation, has contributions and a capital above zero
C30_ZeroCapitalNotDepleted ==
  (/\ params.initialCapital = 0
   /\ params.monthlyInvestment > 0
   /\ Len(data) >= 1
   /\ data[1].retirement = "No")
    => (/\ Lt(0, data[1].capital)
        /\ Lt(0, data[1].annualInvestment))

\* C25: in the age mode the write-back settles after a parameter change:
\* the effect writes at most once and its write does not make it run
\* again, and once it has run the stored monthly withdrawal is within one
\* currency unit of the solved withdrawal
C25_WriteBackSettles ==
  /\ [](updates <= 1)
  /\ [][(effectPending /\ updates' = updates + 1) => ~effectPending']_vars
  /\ []((~effectPending /\ params.withdrawalMode = "age")
          => /\ ~IsNaN(calculatedWithdrawal)
             /\ IsFinite(calculatedWithdrawal)
             /\ Abs(Sub(calculatedWithdrawal,
                        params.monthlyRetirementWithdrawal)) <= Money(1))

====
